---- MODULE Spec2Model ----
(***************************************************************************)
(* A model of the redis-clone server: the RESP value type (pkg/resp), the  *)
(* stored values (internal/server types), the Database guarded by its      *)
(* RWMutex, and the per-connection worker Server.handleClient with the     *)
(* command handlers it dispatches to.                                      *)
(*                                                                         *)
(* Granularity.  A Database method that stays inside one critical section  *)
(* is one step.  Everything a handler does to a *RedisValue after the      *)
(* accessor has returned happens outside the lock, so every load and every *)
(* store of RedisValue.List is a step of its own: the handlers of two      *)
(* connections interleave there.                                           *)
(***************************************************************************)
EXTENDS Integers, Sequences, FiniteSets, TLC

(***************************************************************************)
(* Bounds of the model.                                                    *)
(***************************************************************************)
NumConns == 2       \* connections served at the same time
NumSeqConns == 1    \* connections served when commands run one at a time
MaxLen == 2         \* most list elements the clients store while commands overlap
SeqMaxLen == 3      \* most list elements the clients store with commands one at a time
MaxVals == 2        \* most values in one LPUSH / RPUSH request
MaxArgs == 3        \* most arguments in a request with a wrong argument count
MaxReqs == 2        \* most requests the client of the followed connection sends
MaxCut == 2         \* most bytes the followed stream loses at its end
MaxText == 2        \* longest text of a value sent for decoding
MaxTime == 2        \* the latest instant the clock reaches
MaxTTL == 1         \* the longest time to live given to an entry

\* The keys of the store: a name, and the empty string, which is also the
\* key a handler takes from an argument that is not a bulk string.
KeySeq == <<"k1", "">>
Keys == {KeySeq[i] : i \in 1..Len(KeySeq)}
Vals == {"a", "b"}
Conns == 1..NumConns
SeqConns == 1..NumSeqConns

(***************************************************************************)
(* pkg/resp: the Value type and its constructors.  TSTRING is the source's  *)
(* constant STRING, a reserved word here.                                  *)
(***************************************************************************)
TSTRING == "string"
ERROR == "error"
INTEGER == "integer"
BULK == "bulk"
ARRAY == "array"

Value(t, s, n, b, a, z) ==
    [Type |-> t, Str |-> s, Num |-> n, Bulk |-> b, Array |-> a, Null |-> z]

ZeroValue == Value("", "", 0, "", <<>>, FALSE)

NewSimpleString(s) == Value(TSTRING, s, 0, "", <<>>, FALSE)
NewError(s) == Value(ERROR, s, 0, "", <<>>, FALSE)
NewInteger(n) == Value(INTEGER, "", n, "", <<>>, FALSE)
NewBulkString(s) == Value(BULK, "", 0, s, <<>>, FALSE)
NewNullBulkString == Value(BULK, "", 0, "", <<>>, TRUE)
NewArray(arr) == Value(ARRAY, "", 0, "", arr, FALSE)
NewNullArray == Value(ARRAY, "", 0, "", <<>>, TRUE)

(***************************************************************************)
(* pkg/resp: the codec.  A byte stream is a string; a stream that is over  *)
(* is the empty string, and a read that finds it empty gets io.EOF.  An    *)
(* error is the text of the Go error, ErrNil for nil; Panic is not an      *)
(* error the reader returns but the run-time panic of make() with a        *)
(* negative length.                                                        *)
(***************************************************************************)
ErrNil == "nil"
EOF == "EOF"
ErrUnexpectedEOF == "unexpected EOF"
Panic == "panic: makeslice: len out of range"

Digit(d) ==
    CASE d = 0 -> "0" [] d = 1 -> "1" [] d = 2 -> "2" [] d = 3 -> "3" [] d = 4 -> "4"
      [] d = 5 -> "5" [] d = 6 -> "6" [] d = 7 -> "7" [] d = 8 -> "8" [] d = 9 -> "9"

RECURSIVE Itoa(_)
\* What fmt prints for %d.
Itoa(n) ==
    IF n < 0 THEN "-" \o Itoa(-n)
    ELSE IF n < 10 THEN Digit(n)
    ELSE Itoa(n \div 10) \o Digit(n % 10)

DigitValue(ch) ==
    CASE ch = "0" -> 0 [] ch = "1" -> 1 [] ch = "2" -> 2 [] ch = "3" -> 3 [] ch = "4" -> 4
      [] ch = "5" -> 5 [] ch = "6" -> 6 [] ch = "7" -> 7 [] ch = "8" -> 8 [] ch = "9" -> 9
      [] OTHER -> -1

RECURSIVE Digits(_, _)
\* The number the digits of s after acc denote, -1 when s holds another byte.
Digits(s, acc) ==
    IF s = "" THEN acc
    ELSE IF DigitValue(Head(s)) < 0 THEN -1
    ELSE Digits(Tail(s), 10 * acc + DigitValue(Head(s)))

\* strconv.Atoi: an optional sign, then one digit or more.
Atoi(s) ==
    LET signed == s # "" /\ Head(s) \in {"+", "-"}
        body == IF signed THEN Tail(s) ELSE s
        n == Digits(body, 0)
    IN  IF body = "" \/ n < 0 THEN [ok |-> FALSE, n |-> 0]
        ELSE [ok |-> TRUE, n |-> IF signed /\ Head(s) = "-" THEN -n ELSE n]

RECURSIVE IndexByte(_, _, _)
\* The first position from i on where s holds the byte ch, 0 when none.
IndexByte(s, ch, i) ==
    IF i > Len(s) THEN 0
    ELSE IF SubSeq(s, i, i) = ch THEN i
    ELSE IndexByte(s, ch, i + 1)

\* strings.TrimSuffix.
TrimSuffix(s, suffix) ==
    IF Len(s) >= Len(suffix) /\ SubSeq(s, Len(s) - Len(suffix) + 1, Len(s)) = suffix
    THEN SubSeq(s, 1, Len(s) - Len(suffix))
    ELSE s

\* The stream from its byte i on.
From(s, i) == IF i > Len(s) THEN "" ELSE SubSeq(s, i, Len(s))

\* Parser.readLine: reader.ReadString('\n'), then the "\r\n" trimmed.
readLine(s) ==
    LET i == IndexByte(s, "\n", 1)
    IN  IF i = 0 THEN [err |-> EOF, line |-> "", rest |-> ""]
        ELSE [err |-> ErrNil, line |-> TrimSuffix(SubSeq(s, 1, i), "\r\n"),
              rest |-> From(s, i + 1)]

\* What a read returns: the error, the value, and the stream left unread.
Result(e, v, r) == [err |-> e, value |-> v, rest |-> r]

Failed(e, r) == Result(e, ZeroValue, r)

readSimpleString(s) ==
    LET l == readLine(s)
    IN  IF l.err # ErrNil THEN Failed(l.err, l.rest)
        ELSE Result(ErrNil, Value(TSTRING, l.line, 0, "", <<>>, FALSE), l.rest)

readError(s) ==
    LET l == readLine(s)
    IN  IF l.err # ErrNil THEN Failed(l.err, l.rest)
        ELSE Result(ErrNil, Value(ERROR, l.line, 0, "", <<>>, FALSE), l.rest)

readInteger(s) ==
    LET l == readLine(s)
        a == Atoi(l.line)
    IN  IF l.err # ErrNil THEN Failed(l.err, l.rest)
        ELSE IF ~a.ok THEN Failed("invalid integer: " \o l.line, l.rest)
        ELSE Result(ErrNil, Value(INTEGER, "", a.n, "", <<>>, FALSE), l.rest)

\* io.ReadFull(p.reader, bulk): no byte read is io.EOF, too few bytes
\* io.ErrUnexpectedEOF.
ReadFull(s, length) ==
    IF Len(s) >= length THEN [err |-> ErrNil, bulk |-> SubSeq(s, 1, length)]
    ELSE IF s = "" THEN [err |-> EOF, bulk |-> ""]
    ELSE [err |-> ErrUnexpectedEOF, bulk |-> ""]

\* readBulkString that takes the payload to be the line after the header.
readBulkStringLine(s) ==
    LET l == readLine(s)
        a == Atoi(l.line)
        p == readLine(l.rest)
    IN  IF l.err # ErrNil THEN Failed(l.err, l.rest)
        ELSE IF l.line = "-1" THEN Result(ErrNil, Value(BULK, "", 0, "", <<>>, TRUE), l.rest)
        ELSE IF ~a.ok THEN Failed("invalid bulk string length: " \o l.line, l.rest)
        ELSE IF p.err # ErrNil THEN Failed(p.err, p.rest)
        ELSE Result(ErrNil, Value(BULK, "", 0, p.line, <<>>, FALSE), p.rest)

\* Parser.readBulkString.  The two ReadByte calls after the payload drop
\* what they get, their errors included.
readBulkString(s) ==
    LET l == readLine(s)
        a == Atoi(l.line)
        f == ReadFull(l.rest, a.n)
    IN  IF l.err # ErrNil THEN Failed(l.err, l.rest)
        ELSE IF l.line = "-1" THEN Result(ErrNil, Value(BULK, "", 0, "", <<>>, TRUE), l.rest)
        ELSE IF ~a.ok THEN Failed("invalid bulk string length: " \o l.line, l.rest)
        ELSE IF a.n < 0 THEN Failed(Panic, l.rest)
        ELSE IF f.err # ErrNil THEN Failed(f.err, "")
        ELSE Result(ErrNil, Value(BULK, "", 0, f.bulk, <<>>, FALSE), From(l.rest, a.n + 3))

RECURSIVE ParserRead(_), readElements(_, _, _)

\* The loop of Parser.readArray: n more elements after those of array.
readElements(s, n, array) ==
    IF n = 0 THEN Result(ErrNil, Value(ARRAY, "", 0, "", array, FALSE), s)
    ELSE LET r == ParserRead(s)
         IN  IF r.err # ErrNil THEN Failed(r.err, r.rest)
             ELSE readElements(r.rest, n - 1, Append(array, r.value))

\* readArray without the null form: -1 is a length like another.
readArrayNoNull(s) ==
    LET l == readLine(s)
        a == Atoi(l.line)
    IN  IF l.err # ErrNil THEN Failed(l.err, l.rest)
        ELSE IF ~a.ok THEN Failed("invalid array length: " \o l.line, l.rest)
        ELSE IF a.n < 0 THEN Failed(Panic, l.rest)
        ELSE readElements(l.rest, a.n, <<>>)

\* Parser.readArray.
readArray(s) ==
    LET l == readLine(s)
        a == Atoi(l.line)
    IN  IF l.err # ErrNil THEN Failed(l.err, l.rest)
        ELSE IF l.line = "-1" THEN Result(ErrNil, Value(ARRAY, "", 0, "", <<>>, TRUE), l.rest)
        ELSE IF ~a.ok THEN Failed("invalid array length: " \o l.line, l.rest)
        ELSE IF a.n < 0 THEN Failed(Panic, l.rest)
        ELSE readElements(l.rest, a.n, <<>>)

\* Parser.Read: the value at the head of the stream s.
ParserRead(s) ==
    IF s = "" THEN Failed(EOF, "")
    ELSE LET typeByte == Head(s)
         IN  CASE typeByte = "+" -> readSimpleString(Tail(s))
               [] typeByte = "-" -> readError(Tail(s))
               [] typeByte = ":" -> readInteger(Tail(s))
               [] typeByte = "$" -> readBulkString(Tail(s))
               [] typeByte = "*" -> readArray(Tail(s))
               [] OTHER -> Failed("unknown RESP type: " \o typeByte, Tail(s))

RECURSIVE WriterWrite(_), writeElements(_, _)

\* The loop of Writer.writeArray: the elements of arr after the bytes out.
writeElements(arr, out) ==
    IF arr = <<>> THEN [err |-> ErrNil, bytes |-> out]
    ELSE LET w == WriterWrite(Head(arr))
         IN  IF w.err # ErrNil THEN [err |-> w.err, bytes |-> out \o w.bytes]
             ELSE writeElements(Tail(arr), out \o w.bytes)

\* Writer.Write on a sink that takes every byte: the bytes written and the
\* error returned.
WriterWrite(v) ==
    CASE v.Type = TSTRING -> [err |-> ErrNil, bytes |-> "+" \o v.Str \o "\r\n"]
      [] v.Type = ERROR -> [err |-> ErrNil, bytes |-> "-" \o v.Str \o "\r\n"]
      [] v.Type = INTEGER -> [err |-> ErrNil, bytes |-> ":" \o Itoa(v.Num) \o "\r\n"]
      [] v.Type = BULK ->
            IF v.Null THEN [err |-> ErrNil, bytes |-> "$-1\r\n"]
            ELSE [err |-> ErrNil,
                  bytes |-> "$" \o Itoa(Len(v.Bulk)) \o "\r\n" \o v.Bulk \o "\r\n"]
      [] v.Type = ARRAY ->
            IF v.Null THEN [err |-> ErrNil, bytes |-> "*-1\r\n"]
            ELSE writeElements(v.Array, "*" \o Itoa(Len(v.Array)) \o "\r\n")
      [] OTHER -> [err |-> "unknown value type: " \o v.Type, bytes |-> ""]

(***************************************************************************)
(* internal/server: RedisValue.  Only the fields a command reads or writes *)
(* are kept (Type, String, List, ExpiresAt); Set, Hash and ZSet have no    *)
(* command.  Nil is the nil pointer, NilTime the nil *time.Time.           *)
(***************************************************************************)
Nil == 0
NilTime == -1

RedisValue(t, s, l, e) == [Type |-> t, String |-> s, List |-> l, ExpiresAt |-> e]

NoObj == RedisValue("", "", <<>>, NilTime)

NewStringValue(s) == RedisValue("string", s, <<>>, NilTime)

NewListValue == RedisValue("list", "", <<>>, NilTime)

\* IsExpired of a value that never expires.
NeverExpired(rv, t) == FALSE

IsExpired(rv, t) ==
    IF rv.ExpiresAt = NilTime THEN FALSE ELSE t > rv.ExpiresAt

\* ListPush that appends whatever left is.
ListPushRight(list, value, left) == Append(list, value)

\* The slice ListPush stores into rv.List, from the slice it loaded.
ListPush(list, value, left) ==
    IF left THEN <<value>> \o list ELSE Append(list, value)

\* The slice ListPop stores into rv.List, from the slice it loaded.
ListPopRest(list, left) ==
    IF left THEN Tail(list) ELSE SubSeq(list, 1, Len(list) - 1)

\* ListPop that returns the first element whatever left is.
ListPopValueFirst(list, left) == list[1]

\* The value ListPop returns, from the slice it loaded.
ListPopValue(list, left) ==
    IF left THEN list[1] ELSE list[Len(list)]

ListLength(rv) == IF rv.Type # "list" THEN 0 ELSE Len(rv.List)

(***************************************************************************)
(* State.                                                                  *)
(*   data   Database.data: key -> pointer (Nil when the key is absent)     *)
(*   heap   the RedisValue objects the pointers denote                     *)
(*   now    the clock time.Now() reads                                     *)
(*   pc     where each connection's worker is in handleClient              *)
(*   req    the request the worker decoded (parser.Read)                   *)
(*   reply  the response processCommand returned                           *)
(*   val    the handler's local val, the pointer GetValue returned         *)
(*   tmp    the slice the handler loaded from val.List                     *)
(*   idx    the push loop's i                                              *)
(*   pre    history: the store as it was when a command was read while no  *)
(*          other connection had one under way, until a reply is written;  *)
(*          Stale otherwise                                                *)
(* and, for the one connection whose bytes are followed (WireConn):        *)
(*   peer     history: the values the client wrote with its resp.Writer    *)
(*   sent     history: the bytes that reached the server before the stream *)
(*            ended                                                        *)
(*   inbuf    the bytes the connection's parser has not consumed           *)
(*   outbuf   the bytes the connection's writer wrote                      *)
(*   rerr     the error the last parser.Read returned                      *)
(*   nread    history: how many values parser.Read has returned            *)
(*   nwritten history: how many replies writer.Write has written           *)
(* and the lock of the Database, where its steps are followed (SpecLock):  *)
(*   mu       Database.mu: w, the connection that owns the writer side     *)
(*            (0 when none), and r, the connections holding it shared      *)
(***************************************************************************)
VARIABLES data, heap, now, pc, req, reply, val, tmp, idx, pre,
          peer, sent, inbuf, outbuf, rerr, nread, nwritten, mu

wire == <<peer, sent, inbuf, outbuf, rerr, nread, nwritten>>

vars == <<data, heap, now, pc, req, reply, val, tmp, idx, pre, wire, mu>>

MaxObj == Len(KeySeq) + NumConns + 1
Objs == 1..MaxObj

(***************************************************************************)
(* Pointers.  An object is live while the map or a handler's val points to *)
(* it.  Addresses carry no meaning, so after every step the live objects   *)
(* are renumbered in the order map entries (by key), then handlers (by     *)
(* connection) first mention them, and the dead ones are collected.  A     *)
(* step that moves no pointer leaves the numbering as it is.               *)
(***************************************************************************)
Roots(d, v) ==
    [i \in 1..(Len(KeySeq) + NumConns) |->
        IF i <= Len(KeySeq) THEN d[KeySeq[i]] ELSE v[i - Len(KeySeq)]]

Live(d, v) == {Roots(d, v)[i] : i \in DOMAIN Roots(d, v)} \ {Nil}

Fresh(d, v) == CHOOSE p \in Objs : p \notin Live(d, v) /\ \A q \in 1..(p - 1) : q \in Live(d, v)

Renumber(d, v) ==
    LET r == Roots(d, v)
        first(i) == r[i] # Nil /\ \A j \in 1..(i - 1) : r[j] # r[i]
        at(p) == CHOOSE i \in DOMAIN r : r[i] = p /\ first(i)
    IN  [p \in Live(d, v) |-> Cardinality({i \in 1..at(p) : first(i)})]

Commit(d, h, v) ==
    LET n == Renumber(d, v)
        to(p) == IF p = Nil THEN Nil ELSE n[p]
    IN  IF d = data /\ v = val
        THEN data' = d /\ val' = v /\ heap' = h
        ELSE /\ data' = [k \in Keys |-> to(d[k])]
             /\ val' = [c \in Conns |-> to(v[c])]
             /\ heap' = [q \in Objs |->
                           IF \E p \in Live(d, v) : n[p] = q
                           THEN h[CHOOSE p \in Live(d, v) : n[p] = q]
                           ELSE NoObj]

(***************************************************************************)
(* Database.  Each operator is one method, run inside its critical         *)
(* section: the map (and heap) it leaves and what it returns.              *)
(***************************************************************************)
\* Set as SETNX would be: an entry already there is kept.
SetIfAbsent(d, h, p, key, value) ==
    IF d[key] # Nil THEN [data |-> d, heap |-> h]
    ELSE [data |-> [d EXCEPT ![key] = p],
          heap |-> [h EXCEPT ![p] = NewStringValue(value)]]

\* Database.Set: db.data[key] = NewStringValue(value), at the fresh address p.
Set(d, h, p, key, value) ==
    [data |-> [d EXCEPT ![key] = p],
     heap |-> [h EXCEPT ![p] = NewStringValue(value)]]

\* Get without the test of val.Type.
GetAnyType(d, h, key, t) ==
    LET p == d[key]
        exists == p # Nil
    IN  IF ~exists \/ IsExpired(h[p], t)
        THEN [value |-> "", ok |-> FALSE,
              data |-> IF exists THEN [d EXCEPT ![key] = Nil] ELSE d]
        ELSE [value |-> h[p].String, ok |-> TRUE, data |-> d]

\* Database.Get.  No command of the server sets ExpiresAt, so the cleanup
\* of an expired key is written here as part of the same step.
Get(d, h, key, t) ==
    LET p == d[key]
        exists == p # Nil
    IN  IF ~exists \/ IsExpired(h[p], t)
        THEN [value |-> "", ok |-> FALSE,
              data |-> IF exists THEN [d EXCEPT ![key] = Nil] ELSE d]
        ELSE IF h[p].Type # "string"
        THEN [value |-> "", ok |-> FALSE, data |-> d]
        ELSE [value |-> h[p].String, ok |-> TRUE, data |-> d]

\* Database.GetValue, with the same note on expiry.
GetValue(d, h, key, t) ==
    LET p == d[key]
        exists == p # Nil
    IN  IF ~exists \/ IsExpired(h[p], t)
        THEN [val |-> Nil, ok |-> FALSE,
              data |-> IF exists THEN [d EXCEPT ![key] = Nil] ELSE d]
        ELSE [val |-> p, ok |-> TRUE, data |-> d]

\* Database.SetValue: db.data[key] = value.
SetValue(d, key, p) == [d EXCEPT ![key] = p]

\* Del without the delete.
DelKeeps(d, key) == [exists |-> d[key] # Nil, data |-> d]

\* Database.Del.
Del(d, key) ==
    LET exists == d[key] # Nil
    IN  [exists |-> exists,
         data |-> IF exists THEN [d EXCEPT ![key] = Nil] ELSE d]

(***************************************************************************)
(* Server.processCommand: the routing of a decoded value.                  *)
(***************************************************************************)
CommandNames ==
    {"PING", "SET", "GET", "DEL", "LPUSH", "RPUSH", "LPOP", "RPOP", "LLEN", "TYPE", "QUIT"}

InvalidFormat(value) == value.Type # "array" \/ Len(value.Array) = 0

Command(value) == value.Array[1].Bulk

Args(value) == Tail(value.Array)

\* strings.ToUpper on the letters of s.
RECURSIVE ToUpper(_)
ToUpper(s) ==
    IF Len(s) = 0 THEN s
    ELSE LET lower == "abcdefghijklmnopqrstuvwxyz"
             upper == "ABCDEFGHIJKLMNOPQRSTUVWXYZ"
             ch == SubSeq(s, 1, 1)
             at == {i \in 1..Len(lower) : SubSeq(lower, i, i) = ch}
         IN  (IF at = {} THEN ch ELSE LET i == CHOOSE j \in at : TRUE IN SubSeq(upper, i, i))
             \o ToUpper(SubSeq(s, 2, Len(s)))

\* processCommand that converts the name to upper case before the switch.
RouteFold(value) ==
    IF InvalidFormat(value) THEN "invalid"
    ELSE IF ToUpper(Command(value)) \in CommandNames THEN ToUpper(Command(value))
    ELSE "unknown"

\* processCommand that takes the name only from a bulk string and has no
\* case for a first element of another type.
RouteBulkOnly(value) ==
    IF InvalidFormat(value) THEN "invalid"
    ELSE IF value.Array[1].Type # BULK \/ value.Array[1].Null THEN "panic"
    ELSE IF Command(value) \in CommandNames THEN Command(value)
    ELSE "unknown"

\* The case of the switch the value takes.
Route(value) ==
    IF InvalidFormat(value) THEN "invalid"
    ELSE IF Command(value) \in CommandNames THEN Command(value)
    ELSE "unknown"

Key(value) == Args(value)[1].Bulk

ErrInvalidFormat == NewError("ERR invalid command format")

ErrUnknown(command) == NewError("ERR unknown command '" \o command \o "'")

ErrArity(name) == NewError("ERR wrong number of arguments for '" \o name \o "' command")

ErrWrongType == NewError("WRONGTYPE Operation against a key holding the wrong kind of value")

\* Server.handlePing.
handlePing(args) ==
    IF Len(args) = 0 THEN NewSimpleString("PONG")
    ELSE IF Len(args) = 1 THEN NewBulkString(args[1].Bulk)
    ELSE ErrArity("ping")

(***************************************************************************)
(* The requests the clients send: arrays of bulk strings, as               *)
(* cmd/test-lists and cmd/test-server build them, plus three values that   *)
(* are not commands.                                                       *)
(***************************************************************************)
Cmd(name, args) ==
    NewArray(<<NewBulkString(name)>> \o [i \in 1..Len(args) |-> NewBulkString(args[i])])

ValSeqs == UNION {[1..m -> Vals] : m \in 1..MaxVals}

\* The argument counts section 6 of the specification declares.
ArityOK(name, m) ==
    CASE name = "PING" -> m <= 1
      [] name = "SET" -> m = 2
      [] name \in {"LPUSH", "RPUSH"} -> m >= 2
      [] name = "QUIT" -> TRUE
      [] OTHER -> m = 1

Filler(m) == SubSeq(<<"k1", "a", "b", "a", "b">>, 1, m)

BadArity ==
    UNION {{Cmd(n, Filler(m)) : m \in {j \in 0..MaxArgs : ~ArityOK(n, j)}} : n \in CommandNames}

NotCommands == {NewBulkString("PING"), NewArray(<<>>), NewNullArray}

\* Names that differ from a name of the switch in letter case only.
CaseVariants ==
    {Cmd("set", <<"k1", "b">>), Cmd("Ping", <<>>), Cmd("Del", <<"k1">>),
     Cmd("lpush", <<"k1", "a">>), Cmd("quit", <<>>)}

Requests ==
    {Cmd("PING", <<>>), Cmd("PING", <<"a">>), Cmd("QUIT", <<>>),
     Cmd("get", <<"k1">>), Cmd("FLUSHALL", <<>>)}
    \cup CaseVariants
    \cup {Cmd("SET", <<k, v>>) : k \in Keys, v \in Vals}
    \cup {Cmd(n, <<k>>) : n \in {"GET", "DEL", "LPOP", "RPOP", "LLEN", "TYPE"}, k \in Keys}
    \cup {Cmd(n, <<k>> \o vs) : n \in {"LPUSH", "RPUSH"}, k \in Keys, vs \in ValSeqs}
    \cup BadArity
    \cup NotCommands

\* The requests of the specification in which commands overlap: those on
\* the first key, one value per SET, and one request of each kind that is
\* answered without touching the store.
ConcRequests ==
    {Cmd("PING", <<>>), Cmd("QUIT", <<>>), Cmd("get", <<"k1">>), Cmd("DEL", <<>>),
     NewArray(<<>>), Cmd("SET", <<KeySeq[1], "a">>)}
    \cup {Cmd(n, <<KeySeq[1]>>) : n \in {"GET", "DEL", "LPOP", "RPOP", "LLEN", "TYPE"}}
    \cup {Cmd(n, <<KeySeq[1]>> \o vs) : n \in {"LPUSH", "RPUSH"}, vs \in ValSeqs}

IsPush(r) == Route(r) \in {"LPUSH", "RPUSH"} /\ Len(Args(r)) >= 2

RECURSIVE InFlight(_)
\* The values the pushes under way on connections 1..n may still add.
InFlight(n) ==
    IF n = 0 THEN 0
    ELSE InFlight(n - 1)
         + (IF pc[n] \notin {"none", "read", "write", "closed"} /\ IsPush(req[n])
            THEN Len(Args(req[n])) - 1 ELSE 0)

RECURSIVE Stored(_)
\* The elements the lists at addresses 1..p hold together.
Stored(p) == IF p = 0 THEN 0 ELSE Stored(p - 1) + Len(heap[p].List)

\* The clients stop pushing where the lists together could pass m elements.
Admit(r, m) ==
    IsPush(r) => Stored(MaxObj) + InFlight(NumConns) + Len(Args(r)) - 1 <= m

\* What the map holds, by value: the entry of each key, NoObj when absent.
View(d, h) == [k \in Keys |-> IF d[k] = Nil THEN NoObj ELSE h[d[k]]]

Present(e) == e # NoObj

(***************************************************************************)
(* Server.handleClient, one connection c.                                  *)
(***************************************************************************)
\* sync.RWMutex with no holder.
Unlocked == [w |-> 0, r |-> {}]

\* An Unlock or RUnlock that is not run.
KeptLocked(c) == mu

\* db.mu.Unlock() / db.mu.RUnlock(), deferred to the return of a Database
\* method or called in it: the lock without what connection c holds.
Released(c) == [w |-> IF mu.w = c THEN 0 ELSE mu.w, r |-> mu.r \ {c}]

\* The value of pre that records no store.
Stale == [k \in Keys |-> RedisValue("stale", "", <<>>, NilTime)]

\* NewServer: the empty Database, and no connection yet.
InitServer ==
    /\ data = [k \in Keys |-> Nil]
    /\ heap = [p \in Objs |-> NoObj]
    /\ now = 0
    /\ pc = [c \in Conns |-> "none"]
    /\ req = [c \in Conns |-> ZeroValue]
    /\ reply = [c \in Conns |-> ZeroValue]
    /\ val = [c \in Conns |-> Nil]
    /\ tmp = [c \in Conns |-> <<>>]
    /\ idx = [c \in Conns |-> 0]
    /\ pre = Stale
    /\ mu = Unlocked

\* No bytes are followed.
InitNoWire ==
    /\ peer = <<>>
    /\ sent = ""
    /\ inbuf = ""
    /\ outbuf = ""
    /\ rerr = ErrNil
    /\ nread = 0
    /\ nwritten = 0

Init == InitServer /\ InitNoWire

Idle(c) == pc[c] \in {"none", "read", "closed"}

\* The history variable after a step of c.
Record(c) ==
    pre' = IF pc[c] = "read" /\ pc'[c] = "dispatch"
           THEN IF \A d \in Conns \ {c} : Idle(d) THEN View(data, heap) ELSE pre
           ELSE IF pc[c] = "write" THEN Stale
           ELSE pre

\* The handler returns r, leaving the map d and the heap h.
Finish(c, r, d, h) ==
    /\ Commit(d, h, [val EXCEPT ![c] = Nil])
    /\ pc' = [pc EXCEPT ![c] = "write"]
    /\ reply' = [reply EXCEPT ![c] = r]
    /\ tmp' = [tmp EXCEPT ![c] = <<>>]
    /\ idx' = [idx EXCEPT ![c] = 0]
    /\ UNCHANGED <<now, req>>
    /\ UNCHANGED wire
    /\ mu' = Released(c)
    /\ Record(c)

\* The handler goes on at p with val = v, the loaded slice t and i.
Continue(c, p, d, h, v, t, i) ==
    /\ Commit(d, h, [val EXCEPT ![c] = v])
    /\ pc' = [pc EXCEPT ![c] = p]
    /\ tmp' = [tmp EXCEPT ![c] = t]
    /\ idx' = [idx EXCEPT ![c] = i]
    /\ UNCHANGED <<now, req, reply>>
    /\ UNCHANGED wire
    /\ mu' = Released(c)
    /\ Record(c)

\* Server.Start: listener.Accept and go s.handleClient(conn).
Accept(c) ==
    /\ pc[c] = "none"
    /\ pc' = [pc EXCEPT ![c] = "read"]
    /\ UNCHANGED <<data, heap, now, req, reply, val, tmp, idx>>
    /\ UNCHANGED <<wire, mu>>
    /\ Record(c)

\* parser.Read returned a value.
Read(c, R, m) ==
    /\ pc[c] = "read"
    /\ \E r \in R : Admit(r, m) /\ req' = [req EXCEPT ![c] = r]
    /\ pc' = [pc EXCEPT ![c] = "dispatch"]
    /\ UNCHANGED <<data, heap, now, reply, val, tmp, idx>>
    /\ UNCHANGED <<wire, mu>>
    /\ Record(c)

\* parser.Read returned an error (the peer closed, or a decode error).
ReadErr(c) ==
    /\ pc[c] = "read"
    /\ pc' = [pc EXCEPT ![c] = "closed"]
    /\ UNCHANGED <<data, heap, now, req, reply, val, tmp, idx>>
    /\ UNCHANGED <<wire, mu>>
    /\ Record(c)

\* handleClient that hangs up once it has answered an unknown command.
AfterWriteUnknownCloses(value) == IF Route(value) = "unknown" THEN "closed" ELSE "read"

\* handleClient that, after a write, takes what it holds as a request again.
AfterWriteAgain(value) == "dispatch"

\* The state handleClient is in after writer.Write(response) succeeded.
AfterWrite(value) == "read"

\* writer.Write(response) succeeded: the loop goes round.
Write(c) ==
    /\ pc[c] = "write"
    /\ pc' = [pc EXCEPT ![c] = AfterWrite(req[c])]
    /\ req' = [req EXCEPT ![c] = ZeroValue]
    /\ reply' = [reply EXCEPT ![c] = ZeroValue]
    /\ UNCHANGED <<data, heap, now, val, tmp, idx>>
    /\ UNCHANGED <<wire, mu>>
    /\ Record(c)

\* writer.Write(response) failed.
WriteErr(c) ==
    /\ pc[c] = "write"
    /\ pc' = [pc EXCEPT ![c] = "closed"]
    /\ req' = [req EXCEPT ![c] = ZeroValue]
    /\ reply' = [reply EXCEPT ![c] = ZeroValue]
    /\ UNCHANGED <<data, heap, now, val, tmp, idx>>
    /\ UNCHANGED <<wire, mu>>
    /\ Record(c)

(***************************************************************************)
(* Server.handleClient on the connection whose bytes are followed:         *)
(* parser.Read decodes from inbuf, writer.Write encodes into outbuf.       *)
(***************************************************************************)
\* The first connection.
WireConn == CHOOSE c \in Conns : \A d \in Conns : c <= d

\* Where handleClient goes with the error parser.Read returned, taking
\* every error as final.
AfterReadSkip(err) == IF err = ErrNil THEN "dispatch" ELSE "read"

\* Where handleClient goes with the error parser.Read returned.
AfterRead(err) == IF err = ErrNil THEN "dispatch" ELSE "closed"

\* value, err := parser.Read().  A panic in the goroutine ends the process
\* and with it every connection.
ReadWire(c) ==
    /\ pc[c] = "read"
    /\ LET r == ParserRead(inbuf)
       IN  /\ inbuf' = r.rest
           /\ rerr' = r.err
           /\ IF r.err = Panic
              THEN /\ pc' = [d \in Conns |-> "crashed"]
                   /\ UNCHANGED <<req, nread>>
              ELSE /\ pc' = [pc EXCEPT ![c] = AfterRead(r.err)]
                   /\ req' = IF r.err = ErrNil THEN [req EXCEPT ![c] = r.value] ELSE req
                   /\ nread' = IF r.err = ErrNil THEN nread + 1 ELSE nread
    /\ UNCHANGED <<data, heap, now, reply, val, tmp, idx, peer, sent, outbuf, nwritten, mu>>
    /\ Record(c)

\* writer.Write(response) on a connection that takes the bytes.
WriteWire(c) ==
    /\ pc[c] = "write"
    /\ LET w == WriterWrite(reply[c])
       IN  /\ outbuf' = outbuf \o w.bytes
           /\ pc' = [pc EXCEPT ![c] = IF w.err = ErrNil THEN AfterWrite(req[c])
                                      ELSE "closed"]
           /\ nwritten' = IF w.err = ErrNil THEN nwritten + 1 ELSE nwritten
    /\ req' = [req EXCEPT ![c] = ZeroValue]
    /\ reply' = [reply EXCEPT ![c] = ZeroValue]
    /\ UNCHANGED <<data, heap, now, val, tmp, idx, peer, sent, inbuf, rerr, nread, mu>>
    /\ Record(c)

(***************************************************************************)
(* Server.processCommand and the handlers that finish in one step.         *)
(***************************************************************************)
ProcessInvalid(c) ==
    /\ pc[c] = "dispatch" /\ Route(req[c]) = "invalid"
    /\ Finish(c, ErrInvalidFormat, data, heap)

ProcessUnknown(c) ==
    /\ pc[c] = "dispatch" /\ Route(req[c]) = "unknown"
    /\ Finish(c, ErrUnknown(Command(req[c])), data, heap)

ProcessQuit(c) ==
    /\ pc[c] = "dispatch" /\ Route(req[c]) = "QUIT"
    /\ Finish(c, NewSimpleString("OK"), data, heap)

HandlePing(c) ==
    /\ pc[c] = "dispatch" /\ Route(req[c]) = "PING"
    /\ Finish(c, handlePing(Args(req[c])), data, heap)

\* handleSet that only rejects too few arguments.
handleSetAtLeast(c, args) ==
    IF Len(args) < 2 THEN Finish(c, ErrArity("set"), data, heap)
    ELSE LET s == Set(data, heap, Fresh(data, val), args[1].Bulk, args[2].Bulk)
         IN  Finish(c, NewSimpleString("OK"), s.data, s.heap)

\* Server.handleSet.
handleSet(c, args) ==
    IF Len(args) # 2 THEN Finish(c, ErrArity("set"), data, heap)
    ELSE LET s == Set(data, heap, Fresh(data, val), args[1].Bulk, args[2].Bulk)
         IN  Finish(c, NewSimpleString("OK"), s.data, s.heap)

HandleSet(c) ==
    /\ pc[c] = "dispatch" /\ Route(req[c]) = "SET"
    /\ handleSet(c, Args(req[c]))

\* Server.handleGet.
handleGet(c, args) ==
    IF Len(args) # 1 THEN Finish(c, ErrArity("get"), data, heap)
    ELSE LET g == Get(data, heap, args[1].Bulk, now)
         IN  IF ~g.ok THEN Finish(c, NewNullBulkString, g.data, heap)
             ELSE Finish(c, NewBulkString(g.value), g.data, heap)

HandleGet(c) ==
    /\ pc[c] = "dispatch" /\ Route(req[c]) = "GET"
    /\ handleGet(c, Args(req[c]))

\* Server.handleDel.
handleDel(c, args) ==
    IF Len(args) # 1 THEN Finish(c, ErrArity("del"), data, heap)
    ELSE LET r == Del(data, args[1].Bulk)
         IN  IF r.exists THEN Finish(c, NewInteger(1), r.data, heap)
             ELSE Finish(c, NewInteger(0), r.data, heap)

HandleDel(c) ==
    /\ pc[c] = "dispatch" /\ Route(req[c]) = "DEL"
    /\ handleDel(c, Args(req[c]))

\* Server.handleType.  val.Type never changes once the value is made, so
\* reading it after GetValue returned is the same step.
handleType(c, args) ==
    IF Len(args) # 1 THEN Finish(c, ErrArity("type"), data, heap)
    ELSE LET g == GetValue(data, heap, args[1].Bulk, now)
         IN  IF ~g.ok THEN Finish(c, NewSimpleString("none"), g.data, heap)
             ELSE Finish(c, NewSimpleString(heap[g.val].Type), g.data, heap)

HandleType(c) ==
    /\ pc[c] = "dispatch" /\ Route(req[c]) = "TYPE"
    /\ handleType(c, Args(req[c]))

(***************************************************************************)
(* The list handlers.  GetValue returns a pointer into the map; the        *)
(* handler then works on the RedisValue it points to with the lock         *)
(* released.                                                               *)
(***************************************************************************)
Left(value) == Command(value) \in {"LPUSH", "LPOP"}

\* Server.handleLPush / handleRPush up to the push loop: the argument
\* count, GetValue, and NewListValue() when the key is absent.
handlePush(c, args, name) ==
    IF Len(args) < 2 THEN Finish(c, ErrArity(name), data, heap)
    ELSE LET g == GetValue(data, heap, args[1].Bulk, now)
             p == Fresh(g.data, val)
         IN  IF ~g.ok
             THEN Continue(c, "setvalue", g.data, [heap EXCEPT ![p] = NewListValue],
                           p, <<>>, 1)
             ELSE IF heap[g.val].Type # "list"
             THEN Finish(c, ErrWrongType, g.data, heap)
             ELSE Continue(c, "push_load", g.data, heap, g.val, <<>>, 1)

HandleLPush(c) ==
    /\ pc[c] = "dispatch" /\ Route(req[c]) = "LPUSH"
    /\ handlePush(c, Args(req[c]), "lpush")

HandleRPush(c) ==
    /\ pc[c] = "dispatch" /\ Route(req[c]) = "RPUSH"
    /\ handlePush(c, Args(req[c]), "rpush")

\* s.db.SetValue(key, val) with the list just made.
PushSetValue(c) ==
    /\ pc[c] = "setvalue"
    /\ Continue(c, "push_load", SetValue(data, Key(req[c]), val[c]), heap,
                val[c], <<>>, idx[c])

\* val.ListPush(args[i].Bulk, left): the load of rv.List.
PushLoad(c) ==
    /\ pc[c] = "push_load"
    /\ Continue(c, "push_store", data, heap, val[c], heap[val[c]].List, idx[c])

\* The slice ListPush stores into rv.List: nothing new unless rv is a list.
PushStored(rv, loaded, value, left) ==
    IF rv.Type # "list" THEN rv.List ELSE ListPush(loaded, value, left)

\* val.ListPush(args[i].Bulk, left): the store to rv.List; then i++.
PushStore(c) ==
    /\ pc[c] = "push_store"
    /\ LET args == Args(req[c])
           new == PushStored(heap[val[c]], tmp[c], args[idx[c] + 1].Bulk, Left(req[c]))
       IN  Continue(c, IF idx[c] + 1 < Len(args) THEN "push_load" ELSE "push_len",
                    data, [heap EXCEPT ![val[c]].List = new], val[c], <<>>, idx[c] + 1)

\* return resp.NewInteger(val.ListLength()).
PushLen(c) ==
    /\ pc[c] = "push_len"
    /\ Finish(c, NewInteger(ListLength(heap[val[c]])), data, heap)

\* handlePop without the test of val.Type.
handlePopAnyType(c, args, name) ==
    IF Len(args) # 1 THEN Finish(c, ErrArity(name), data, heap)
    ELSE LET g == GetValue(data, heap, args[1].Bulk, now)
         IN  IF ~g.ok THEN Finish(c, NewNullBulkString, g.data, heap)
             ELSE Continue(c, "pop_load", g.data, heap, g.val, <<>>, 0)

\* Server.handleLPop / handleRPop up to val.ListPop.
handlePop(c, args, name) ==
    IF Len(args) # 1 THEN Finish(c, ErrArity(name), data, heap)
    ELSE LET g == GetValue(data, heap, args[1].Bulk, now)
         IN  IF ~g.ok THEN Finish(c, NewNullBulkString, g.data, heap)
             ELSE IF heap[g.val].Type # "list"
             THEN Finish(c, ErrWrongType, g.data, heap)
             ELSE Continue(c, "pop_load", g.data, heap, g.val, <<>>, 0)

HandleLPop(c) ==
    /\ pc[c] = "dispatch" /\ Route(req[c]) = "LPOP"
    /\ handlePop(c, Args(req[c]), "lpop")

HandleRPop(c) ==
    /\ pc[c] = "dispatch" /\ Route(req[c]) = "RPOP"
    /\ handlePop(c, Args(req[c]), "rpop")

\* val.ListPop(left): the load of rv.List, its length test and the value.
PopLoad(c) ==
    /\ pc[c] = "pop_load"
    /\ LET list == heap[val[c]].List
       IN  IF heap[val[c]].Type # "list" \/ Len(list) = 0
           THEN Finish(c, NewNullBulkString, data, heap)
           ELSE Continue(c, "pop_store", data, heap, val[c], list, 0)

\* val.ListPop(left): the store to rv.List.
PopStore(c) ==
    /\ pc[c] = "pop_store"
    /\ Continue(c, "pop_len", data,
                [heap EXCEPT ![val[c]].List = ListPopRest(tmp[c], Left(req[c]))],
                val[c], tmp[c], 0)

\* Whether the handler goes on to delete the key: val.ListLength() == 0.
PopDeletes(rv) == ListLength(rv) = 0

\* if val.ListLength() == 0: the load; without a delete the handler returns.
PopLen(c) ==
    /\ pc[c] = "pop_len"
    /\ IF PopDeletes(heap[val[c]])
       THEN Continue(c, "pop_del", data, heap, val[c], tmp[c], 0)
       ELSE Finish(c, NewBulkString(ListPopValue(tmp[c], Left(req[c]))), data, heap)

\* s.db.Del(key), and the return.
PopDel(c) ==
    /\ pc[c] = "pop_del"
    /\ Finish(c, NewBulkString(ListPopValue(tmp[c], Left(req[c]))),
              Del(data, Key(req[c])).data, heap)

\* Server.handleLLen up to val.ListLength().
handleLLen(c, args) ==
    IF Len(args) # 1 THEN Finish(c, ErrArity("llen"), data, heap)
    ELSE LET g == GetValue(data, heap, args[1].Bulk, now)
         IN  IF ~g.ok THEN Finish(c, NewInteger(0), g.data, heap)
             ELSE IF heap[g.val].Type # "list"
             THEN Finish(c, ErrWrongType, g.data, heap)
             ELSE Continue(c, "llen_load", g.data, heap, g.val, <<>>, 0)

HandleLLen(c) ==
    /\ pc[c] = "dispatch" /\ Route(req[c]) = "LLEN"
    /\ handleLLen(c, Args(req[c]))

\* return resp.NewInteger(val.ListLength()).
LLenLoad(c) ==
    /\ pc[c] = "llen_load"
    /\ Finish(c, NewInteger(ListLength(heap[val[c]])), data, heap)

(***************************************************************************)
(* The specifications.  Spec: the connections run as the scheduler lets    *)
(* them.  SpecSeq: the same steps for the clients that send a request and  *)
(* wait for its reply, as cmd/test-lists and cmd/test-server do, with no   *)
(* two commands under way at once; pre is then the store each command      *)
(* started from.                                                           *)
(***************************************************************************)
Step(c, R, m) ==
    \/ Accept(c)
    \/ Read(c, R, m)
    \/ ReadErr(c)
    \/ ProcessInvalid(c)
    \/ ProcessUnknown(c)
    \/ ProcessQuit(c)
    \/ HandlePing(c)
    \/ HandleSet(c)
    \/ HandleGet(c)
    \/ HandleDel(c)
    \/ HandleType(c)
    \/ HandleLPush(c)
    \/ HandleRPush(c)
    \/ PushSetValue(c)
    \/ PushLoad(c)
    \/ PushStore(c)
    \/ PushLen(c)
    \/ HandleLPop(c)
    \/ HandleRPop(c)
    \/ PopLoad(c)
    \/ PopStore(c)
    \/ PopLen(c)
    \/ PopDel(c)
    \/ HandleLLen(c)
    \/ LLenLoad(c)
    \/ Write(c)
    \/ WriteErr(c)

Next == \E c \in Conns : Step(c, ConcRequests, MaxLen)

Spec == Init /\ [][Next]_vars

\* No other connection has a command under way.
Quiet(c) == \A d \in Conns \ {c} : Idle(d)

NextSeq ==
    \E c \in SeqConns :
        \/ Quiet(c) /\ Accept(c)
        \/ Quiet(c) /\ Read(c, Requests, SeqMaxLen)
        \/ Quiet(c) /\ ReadErr(c)
        \/ Quiet(c) /\ ProcessInvalid(c)
        \/ Quiet(c) /\ ProcessUnknown(c)
        \/ Quiet(c) /\ ProcessQuit(c)
        \/ Quiet(c) /\ HandlePing(c)
        \/ Quiet(c) /\ HandleSet(c)
        \/ Quiet(c) /\ HandleGet(c)
        \/ Quiet(c) /\ HandleDel(c)
        \/ Quiet(c) /\ HandleType(c)
        \/ Quiet(c) /\ HandleLPush(c)
        \/ Quiet(c) /\ HandleRPush(c)
        \/ Quiet(c) /\ PushSetValue(c)
        \/ Quiet(c) /\ PushLoad(c)
        \/ Quiet(c) /\ PushStore(c)
        \/ Quiet(c) /\ PushLen(c)
        \/ Quiet(c) /\ HandleLPop(c)
        \/ Quiet(c) /\ HandleRPop(c)
        \/ Quiet(c) /\ PopLoad(c)
        \/ Quiet(c) /\ PopStore(c)
        \/ Quiet(c) /\ PopLen(c)
        \/ Quiet(c) /\ PopDel(c)
        \/ Quiet(c) /\ HandleLLen(c)
        \/ Quiet(c) /\ LLenLoad(c)
        \/ Quiet(c) /\ Write(c)
        \/ Quiet(c) /\ WriteErr(c)

SpecSeq == Init /\ [][NextSeq]_vars

(***************************************************************************)
(* SpecWire: one connection followed byte by byte.  Its client writes a    *)
(* script of values with resp.Writer, as sendCommand of cmd/test-server    *)
(* does, or raw bytes; the stream may end up to MaxCut bytes early.        *)
(***************************************************************************)
Alphabet == {"a", "\r", "\n"}

RECURSIVE Texts(_)
\* The texts of at most n bytes.
Texts(n) ==
    IF n = 0 THEN {""}
    ELSE Texts(n - 1) \cup {t \o ch : t \in Texts(n - 1), ch \in Alphabet}

Scalars ==
    {NewSimpleString(t) : t \in Texts(MaxText)} \cup {NewError(t) : t \in Texts(MaxText)}
    \cup {NewBulkString(t) : t \in Texts(MaxText)}
    \cup {NewInteger(n) : n \in {-12, -1, 0, 7, 10}}

Elements ==
    {NewBulkString("a\r"), NewSimpleString("a"), NewInteger(-1), NewNullBulkString,
     NewArray(<<>>), NewArray(<<NewBulkString("\n"), NewInteger(7)>>)}

Arrays == {NewArray(a) : a \in UNION {[1..m -> Elements] : m \in 0..2}}

\* The values sent for decoding that are not null forms.
CodecValues == Scalars \cup Arrays

NullForms == {NewNullBulkString, NewNullArray}

WireRequests ==
    {Cmd("PING", <<"a">>), Cmd("PING", <<"b">>), Cmd("QUIT", <<>>), Cmd("get", <<KeySeq[1]>>),
     NewArray(<<>>), Cmd("SET", <<KeySeq[1], "a">>), Cmd("LPUSH", <<KeySeq[1], "a">>),
     Cmd("RPUSH", <<KeySeq[1], "a", "b">>)}
    \cup {Cmd(n, <<KeySeq[1]>>) : n \in {"GET", "DEL", "LPOP", "RPOP", "LLEN", "TYPE"}}

\* Requests whose elements are not all bulk strings: the name or an argument
\* is an integer, a simple string, a null bulk string or an array.
OddRequests ==
    {NewArray(<<NewSimpleString("PING")>>),
     NewArray(<<NewInteger(7), NewBulkString("a")>>),
     NewArray(<<NewBulkString("PING"), NewInteger(7)>>),
     NewArray(<<NewBulkString("SET"), NewNullBulkString, NewArray(<<NewBulkString("a")>>)>>),
     NewArray(<<NewBulkString("SET"), NewBulkString(KeySeq[1]), NewInteger(7)>>),
     NewArray(<<NewBulkString("LPUSH"), NewSimpleString("a"), NewInteger(-1)>>),
     NewArray(<<NewBulkString("RPUSH"), NewBulkString(KeySeq[1]), NewNullBulkString>>)}
    \cup {NewArray(<<NewBulkString(n), e>>) :
             n \in {"GET", "DEL", "LPOP", "RPOP", "LLEN", "TYPE"},
             e \in {NewInteger(7), NewNullBulkString}}

\* Requests whose bulk strings hold CR, LF, both, or no byte at all.
FrameRequests == {Cmd("PING", <<t>>) : t \in {"\r\n", "\n", "a\r", ""}}

Scripts ==
    {<<v>> : v \in CodecValues \cup NullForms \cup OddRequests}
    \cup UNION {[1..m -> FrameRequests] : m \in 1..MaxReqs}
    \cup {<<r, o>> : r \in {Cmd("SET", <<"", "a">>), Cmd("RPUSH", <<"", "a">>)}, o \in OddRequests}
    \cup {<<z, r>> : z \in NullForms, r \in {Cmd("PING", <<"a">>)}}
    \cup UNION {[1..m -> WireRequests] : m \in 1..MaxReqs}

\* Streams no Writer produced: a bad tag, lengths that are no numbers or
\* negative, an integer that is none; alone or before a well-formed value.
RawStreams ==
    {b \o t : b \in {"x", "$x\r\n", "*x\r\n", ":x\r\n", "$-5\r\n", "*-2\r\n"},
               t \in {"", "+OK\r\n"}}

RECURSIVE Bytes(_)
\* What the client's Writer writes for the values vs.
Bytes(vs) == IF vs = <<>> THEN "" ELSE WriterWrite(Head(vs)).bytes \o Bytes(Tail(vs))

\* The stream s without its last n bytes.
Drop(s, n) == IF n >= Len(s) THEN "" ELSE SubSeq(s, 1, Len(s) - n)

InitWire ==
    /\ InitServer
    /\ \/ \E p \in Scripts, cut \in 0..MaxCut :
              peer = p /\ sent = Drop(Bytes(p), cut)
       \/ peer = <<>> /\ sent \in RawStreams
    /\ inbuf = sent
    /\ outbuf = ""
    /\ rerr = ErrNil
    /\ nread = 0
    /\ nwritten = 0

NextWire ==
    \E c \in {WireConn} :
        \/ Accept(c)
        \/ ReadWire(c)
        \/ ProcessInvalid(c)
        \/ ProcessUnknown(c)
        \/ ProcessQuit(c)
        \/ HandlePing(c)
        \/ HandleSet(c)
        \/ HandleGet(c)
        \/ HandleDel(c)
        \/ HandleType(c)
        \/ HandleLPush(c)
        \/ HandleRPush(c)
        \/ PushSetValue(c)
        \/ PushLoad(c)
        \/ PushStore(c)
        \/ PushLen(c)
        \/ HandleLPop(c)
        \/ HandleRPop(c)
        \/ PopLoad(c)
        \/ PopStore(c)
        \/ PopLen(c)
        \/ PopDel(c)
        \/ HandleLLen(c)
        \/ LLenLoad(c)
        \/ WriteWire(c)
        \/ WriteErr(c)

SpecWire == InitWire /\ [][NextWire]_vars

(***************************************************************************)
(* SpecExp: one connection, entries that expire, and a clock.  No command  *)
(* of the server gives an entry an expiration; the program that embeds the *)
(* store does, with RedisValue.SetExpiration.  Every command looks at the  *)
(* clock in one place only (the IsExpired of its Get or GetValue), so time *)
(* that passes while a command runs is time that passed before or after    *)
(* it: the clock moves, and expirations are set, between commands.         *)
(***************************************************************************)
\* rv.SetExpiration(ttl) on the entry of key k: ExpiresAt = time.Now().Add(ttl).
SetExpiration(k, ttl) ==
    /\ \A c \in Conns : Idle(c)
    /\ data[k] # Nil
    /\ heap' = [heap EXCEPT ![data[k]].ExpiresAt = now + ttl]
    /\ UNCHANGED <<data, now, pc, req, reply, val, tmp, idx, pre>>
    /\ UNCHANGED <<wire, mu>>

\* A unit of time passes.
Tick ==
    /\ \A c \in Conns : Idle(c)
    /\ now < MaxTime
    /\ now' = now + 1
    /\ UNCHANGED <<data, heap, pc, req, reply, val, tmp, idx, pre>>
    /\ UNCHANGED <<wire, mu>>

NextExp ==
    \/ \E c \in {WireConn} : Step(c, ConcRequests, MaxLen)
    \/ \E k \in Keys, ttl \in 0..MaxTTL : SetExpiration(k, ttl)
    \/ Tick

SpecExp == Init /\ [][NextExp]_vars

(***************************************************************************)
(* SpecLock: the Database methods followed lock by lock.  db.mu is a       *)
(* sync.RWMutex: RLock waits while a writer owns the writer side; Lock     *)
(* first takes the writer side, which stops new readers, and then waits    *)
(* for the readers that hold the lock to leave.  What a method does        *)
(* between taking the lock and releasing it is one step.  GET calls Get,   *)
(* SET calls Set, DEL calls Del; LPUSH calls GetValue and, on an absent    *)
(* key, SetValue; LPOP calls GetValue and, once the list is empty, Del.    *)
(* Between those calls the list handlers work on the entry as in Spec.     *)
(***************************************************************************)
LockRequests ==
    {Cmd("GET", <<KeySeq[1]>>), Cmd("SET", <<KeySeq[1], "a">>), Cmd("DEL", <<KeySeq[1]>>),
     Cmd("LPUSH", <<KeySeq[1], "a">>), Cmd("LPOP", <<KeySeq[1]>>)}

\* Connection c goes to p and leaves the lock as m; nothing else changes.
Move(c, p, m) ==
    /\ pc' = [pc EXCEPT ![c] = p]
    /\ mu' = m
    /\ UNCHANGED <<data, heap, now, req, reply, val, tmp, idx>>
    /\ UNCHANGED wire
    /\ Record(c)

\* The handler of c goes on with what Get or GetValue returned: the entry p
\* and exists.  handleGet, handleLPush, handleLPop after the call.
Returned(c, exists, p) ==
    CASE Route(req[c]) = "GET" ->
             IF exists /\ heap[p].Type = "string"
             THEN Finish(c, NewBulkString(heap[p].String), data, heap)
             ELSE Finish(c, NewNullBulkString, data, heap)
      [] Route(req[c]) = "LPUSH" ->
             IF ~exists
             THEN Continue(c, "setvalue", data,
                           [heap EXCEPT ![Fresh(data, val)] = NewListValue],
                           Fresh(data, val), <<>>, 1)
             ELSE IF heap[p].Type # "list" THEN Finish(c, ErrWrongType, data, heap)
             ELSE Continue(c, "push_load", data, heap, p, <<>>, 1)
      [] Route(req[c]) = "LPOP" ->
             IF ~exists THEN Finish(c, NewNullBulkString, data, heap)
             ELSE IF heap[p].Type # "list" THEN Finish(c, ErrWrongType, data, heap)
             ELSE Continue(c, "pop_load", data, heap, p, <<>>, 0)

\* db.mu.RLock() at the start of Get / GetValue.
RLock(c) ==
    /\ pc[c] = "dispatch" /\ Route(req[c]) \in {"GET", "LPUSH", "LPOP"}
    /\ mu.w = 0
    /\ Move(c, "get_in", [mu EXCEPT !.r = @ \cup {c}])

\* Whether Get / GetValue goes on to clean up: exists && val.IsExpired().
Cleans(d, h, key, t) == d[key] # Nil /\ IsExpired(h[d[key]], t)

\* val, exists := db.data[key] and the test of val.IsExpired(): on an
\* expired entry db.mu.RUnlock(), otherwise the return (and the deferred
\* RUnlock).
GetLookup(c) ==
    /\ pc[c] = "get_in"
    /\ IF Cleans(data, heap, Key(req[c]), now)
       THEN Move(c, "get_upgrade", Released(c))
       ELSE Returned(c, data[Key(req[c])] # Nil, data[Key(req[c])])

\* db.mu.Lock() of the cleanup: the writer side.
GetLock(c) ==
    /\ pc[c] = "get_upgrade"
    /\ mu.w = 0
    /\ Move(c, "get_drain", [mu EXCEPT !.w = c])

\* The readers have left: delete(db.data, key) and db.mu.Unlock().
GetDelete(c) ==
    /\ pc[c] = "get_drain"
    /\ mu.r = {}
    /\ Continue(c, "get_relock", [data EXCEPT ![Key(req[c])] = Nil], heap, val[c], <<>>, 0)

\* db.mu.RLock() after the cleanup.
GetRelock(c) ==
    /\ pc[c] = "get_relock"
    /\ mu.w = 0
    /\ Move(c, "get_ret", [mu EXCEPT !.r = @ \cup {c}])

\* return "", false / return nil, false (and the deferred RUnlock).
GetReturn(c) ==
    /\ pc[c] = "get_ret"
    /\ Returned(c, FALSE, Nil)

\* db.mu.Lock() at the start of Set, Del and SetValue: the writer side.
Lock(c) ==
    /\ \/ pc[c] = "dispatch" /\ Route(req[c]) \in {"SET", "DEL"}
       \/ pc[c] \in {"setvalue", "pop_del"}
    /\ mu.w = 0
    /\ Move(c, CASE pc[c] = "dispatch" -> "w_drain"
                  [] pc[c] = "setvalue" -> "sv_drain"
                  [] pc[c] = "pop_del" -> "pd_drain",
            [mu EXCEPT !.w = c])

\* Database.Set with the lock held, to the return of handleSet.
SetLocked(c) ==
    /\ pc[c] = "w_drain" /\ Route(req[c]) = "SET"
    /\ mu.r = {}
    /\ handleSet(c, Args(req[c]))

\* Database.Del with the lock held, to the return of handleDel.
DelLocked(c) ==
    /\ pc[c] = "w_drain" /\ Route(req[c]) = "DEL"
    /\ mu.r = {}
    /\ handleDel(c, Args(req[c]))

\* Database.SetValue with the lock held, in handleLPush.
SetValueLocked(c) ==
    /\ pc[c] = "sv_drain"
    /\ mu.r = {}
    /\ Continue(c, "push_load", SetValue(data, Key(req[c]), val[c]), heap,
                val[c], <<>>, idx[c])

\* Database.Del with the lock held, to the return of handleLPop.
PopDelLocked(c) ==
    /\ pc[c] = "pd_drain"
    /\ mu.r = {}
    /\ Finish(c, NewBulkString(ListPopValue(tmp[c], Left(req[c]))),
              Del(data, Key(req[c])).data, heap)

\* A unit of time passes, whatever the connections are doing.
Elapse ==
    /\ now < MaxTime
    /\ now' = now + 1
    /\ UNCHANGED <<data, heap, pc, req, reply, val, tmp, idx, pre>>
    /\ UNCHANGED <<wire, mu>>

\* The steps in which connection c takes the lock or one side of it.
Acquire(c) == RLock(c) \/ GetLock(c) \/ GetRelock(c) \/ Lock(c)

\* The steps of a command of c that wait for no one to release the lock.
Run(c) ==
    \/ GetLookup(c)
    \/ GetDelete(c)
    \/ GetReturn(c)
    \/ SetLocked(c)
    \/ DelLocked(c)
    \/ SetValueLocked(c)
    \/ PopDelLocked(c)
    \/ PushLoad(c)
    \/ PushStore(c)
    \/ PushLen(c)
    \/ PopLoad(c)
    \/ PopStore(c)
    \/ PopLen(c)
    \/ Write(c)

NextLock ==
    \/ \E c \in Conns :
          \/ Accept(c)
          \/ Read(c, LockRequests, MaxLen)
          \/ RLock(c)
          \/ GetLookup(c)
          \/ GetLock(c)
          \/ GetDelete(c)
          \/ GetRelock(c)
          \/ GetReturn(c)
          \/ Lock(c)
          \/ SetLocked(c)
          \/ DelLocked(c)
          \/ SetValueLocked(c)
          \/ PopDelLocked(c)
          \/ PushLoad(c)
          \/ PushStore(c)
          \/ PushLen(c)
          \/ PopLoad(c)
          \/ PopStore(c)
          \/ PopLen(c)
          \/ Write(c)
    \/ SetExpiration(KeySeq[1], 0)
    \/ Elapse

SpecLock == Init /\ [][NextLock]_vars

\* Whether a step of Run(c) can be taken: c is inside a critical section or
\* in a handler step that takes no lock, or it owns the writer side and the
\* readers have left.  It is ENABLED <<Run(c)>>_vars written out.
RunEnabled(c) ==
    \/ pc[c] \in {"get_in", "get_ret", "write",
                  "push_load", "push_store", "push_len",
                  "pop_load", "pop_store", "pop_len"}
    \/ pc[c] \in {"get_drain", "w_drain", "sv_drain", "pd_drain"} /\ mu.r = {}

RunEnabledExact == \A c \in Conns : RunEnabled(c) <=> ENABLED <<Run(c)>>_vars

\* The scheduler runs every goroutine that can run: weak fairness of Run(c),
\* which is WF_vars(Run(c)) with its ENABLED written as RunEnabled(c).
\* sync.RWMutex hands the lock to those that wait for it, the readers
\* blocked by a writer are admitted when it unlocks and the writers queue
\* on the writer side: strong fairness of Acquire(c).
FairLock ==
    \A c \in Conns :
        /\ []<>(~RunEnabled(c)) \/ []<><<Run(c)>>_vars
        /\ SF_vars(Acquire(c))

SpecLockFair == SpecLock /\ FairLock

(***************************************************************************)
(* Properties.  A command has run to its reply when its connection is at   *)
(* "write"; under SpecSeq pre is then the store the command started from.  *)
(***************************************************************************)
Store == View(data, heap)

ArgCount(c) == Len(Args(req[c]))

\* Connection c has the reply of a well-formed command named in names.
Done(c, names) ==
    /\ pc[c] = "write"
    /\ Route(req[c]) \in names
    /\ ArityOK(Route(req[c]), ArgCount(c))

K(c) == Key(req[c])

ListEntry(l) == RedisValue("list", "", l, NilTime)

Rev(s) == [i \in 1..Len(s) |-> s[Len(s) + 1 - i]]

\* The values v1 ... vn of the push request of c.
Pushed(c) == [i \in 1..(ArgCount(c) - 1) |-> Args(req[c])[i + 1].Bulk]

LowerName(name) ==
    CASE name = "PING" -> "ping" [] name = "SET" -> "set" [] name = "GET" -> "get"
      [] name = "DEL" -> "del" [] name = "LPUSH" -> "lpush" [] name = "RPUSH" -> "rpush"
      [] name = "LPOP" -> "lpop" [] name = "RPOP" -> "rpop" [] name = "LLEN" -> "llen"
      [] name = "TYPE" -> "type"

\* C1: on a key that holds a String, LPUSH, RPUSH, LPOP, RPOP and LLEN reply
\* the WRONGTYPE error and leave every key of the store as it was.
C1_WrongType ==
    \A c \in Conns :
        (Done(c, {"LPUSH", "RPUSH", "LPOP", "RPOP", "LLEN"}) /\ pre[K(c)].Type = "string")
            => reply[c] = ErrWrongType /\ Store = pre

C1_Witness ==
    \E c \in Conns :
        /\ Done(c, {"LPOP"}) /\ pre[K(c)].Type = "string"
        /\ reply[c] = ErrWrongType /\ Store[K(c)].Type = "string"

\* C2: SET k v replies OK and leaves at k the String v without expiration,
\* whatever k held; GET k on a String replies its value; and no command but
\* SET k and DEL k changes a String held at k, so GET k replies the value
\* most recently SET.
C2_SetGet ==
    \A c \in Conns :
        /\ Done(c, {"SET"}) =>
              /\ reply[c] = NewSimpleString("OK")
              /\ Store = [pre EXCEPT ![K(c)] = NewStringValue(Args(req[c])[2].Bulk)]
        /\ (Done(c, {"GET"}) /\ pre[K(c)].Type = "string") =>
              /\ reply[c] = NewBulkString(pre[K(c)].String)
              /\ Store = pre
        /\ \A k \in Keys :
              (pc[c] = "write" /\ pre[k].Type = "string"
                 /\ ~(Done(c, {"SET", "DEL"}) /\ K(c) = k))
                  => Store[k] = pre[k]

C2_Witness ==
    \E c \in Conns :
        /\ Done(c, {"SET"}) /\ pre[K(c)].Type = "list"
        /\ Store[K(c)] = NewStringValue("b")

\* C3: DEL k replies 1 when k was present and 0 when not, leaves k absent
\* and the other keys as they were; on an absent key GET replies the null
\* bulk string and TYPE replies none.
C3_Del ==
    \A c \in Conns :
        /\ Done(c, {"DEL"}) =>
              /\ reply[c] = NewInteger(IF Present(pre[K(c)]) THEN 1 ELSE 0)
              /\ Store = [pre EXCEPT ![K(c)] = NoObj]
        /\ (Done(c, {"GET"}) /\ ~Present(pre[K(c)])) =>
              reply[c] = NewNullBulkString /\ Store = pre
        /\ (Done(c, {"TYPE"}) /\ ~Present(pre[K(c)])) =>
              reply[c] = NewSimpleString("none") /\ Store = pre

C3_Witness ==
    \E c \in Conns :
        /\ Done(c, {"DEL"}) /\ pre[K(c)].Type = "list" /\ Present(pre[KeySeq[2]])
        /\ reply[c] = NewInteger(1) /\ ~Present(Store[K(c)])

\* C4: in no reachable state does a key map to a list of length zero.
C4_NoEmptyList ==
    \A k \in Keys :
        data[k] # Nil => ~(heap[data[k]].Type = "list" /\ Len(heap[data[k]].List) = 0)

\* C5: LPUSH k v1 ... vn on the list L (empty when k is absent) leaves
\* [vn, ..., v1] ++ L, RPUSH leaves L ++ [v1, ..., vn], and both reply
\* len(L) + n.
C5_Push ==
    \A c \in Conns :
        (Done(c, {"LPUSH", "RPUSH"}) /\ pre[K(c)].Type # "string") =>
            LET L == pre[K(c)].List
                after == IF Route(req[c]) = "LPUSH" THEN Rev(Pushed(c)) \o L
                         ELSE L \o Pushed(c)
            IN  /\ Store = [pre EXCEPT ![K(c)] = ListEntry(after)]
                /\ reply[c] = NewInteger(Len(L) + Len(Pushed(c)))

C5_Witness ==
    \E c \in Conns :
        /\ Done(c, {"LPUSH"}) /\ pre[K(c)].Type = "list"
        /\ Pushed(c) = <<"a", "b">>
        /\ Store[K(c)].List = <<"b", "a">> \o pre[K(c)].List

\* C6: LPOP replies the first element of the list and RPOP the last, and
\* leaves the list without it (the key absent when it was the only one); on
\* an absent key a pop replies the null bulk string and changes nothing.
C6_Pop ==
    \A c \in Conns :
        /\ (Done(c, {"LPOP", "RPOP"}) /\ ~Present(pre[K(c)])) =>
              reply[c] = NewNullBulkString /\ Store = pre
        /\ (Done(c, {"LPOP", "RPOP"}) /\ pre[K(c)].Type = "list") =>
              LET L == pre[K(c)].List
                  left == Route(req[c]) = "LPOP"
                  rest == IF left THEN Tail(L) ELSE SubSeq(L, 1, Len(L) - 1)
              IN  /\ Len(L) > 0
                  /\ reply[c] = NewBulkString(IF left THEN L[1] ELSE L[Len(L)])
                  /\ Store = [pre EXCEPT ![K(c)] =
                                 IF rest = <<>> THEN NoObj ELSE ListEntry(rest)]

C6_Witness ==
    \E c \in Conns :
        /\ Done(c, {"RPOP"}) /\ pre[K(c)].Type = "list"
        /\ pre[K(c)].List = <<"a", "a", "b">>
        /\ reply[c] = NewBulkString("b") /\ Store[K(c)].List = <<"a", "a">>

\* C7: a request for PING, SET, GET, DEL, LPUSH, RPUSH, LPOP, RPOP, LLEN or
\* TYPE with an argument count outside the declared arity is answered with
\* the command's wrong-number-of-arguments error, the store unchanged.
C7_Arity ==
    \A c \in Conns :
        (/\ pc[c] = "write"
         /\ Route(req[c]) \in CommandNames \ {"QUIT"}
         /\ ~ArityOK(Route(req[c]), ArgCount(c)))
            => reply[c] = ErrArity(LowerName(Route(req[c]))) /\ Store = pre

C7_Witness ==
    \E c \in Conns :
        /\ pc[c] = "write" /\ Route(req[c]) = "SET" /\ ArgCount(c) = 3
        /\ Present(pre[KeySeq[1]])
        /\ reply[c] = ErrArity("set")

Count(x, seq) == Cardinality({i \in DOMAIN seq : seq[i] = x})

Busy == {c \in Conns : ~Idle(c)}

RECURSIVE PushedCount(_, _)
\* How often the pushes of connections 1..n carry the value x.
PushedCount(n, x) ==
    IF n = 0 THEN 0
    ELSE PushedCount(n - 1, x) + (IF n \in Busy THEN Count(x, Pushed(n)) ELSE 0)

\* C9: when pushes of two or more connections to one key, read from a store
\* where no other command was under way, have all replied, the list at the
\* key holds what it held before and every pushed value once more.
C9_PushesKept ==
    \A k \in Keys :
        (/\ pre # Stale
         /\ Cardinality(Busy) >= 2
         /\ \A c \in Busy : Done(c, {"LPUSH", "RPUSH"}) /\ K(c) = k
         /\ pre[k].Type # "string")
            => /\ Store[k].Type = "list"
               /\ \A x \in Vals :
                     Count(x, Store[k].List) = Count(x, pre[k].List) + PushedCount(NumConns, x)

\* C10: once the reply to QUIT is written the connection is closed.
C10_QuitCloses ==
    [][\A c \in Conns :
          (pc[c] = "write" /\ Route(req[c]) = "QUIT" /\ pc'[c] # "write")
              => pc'[c] = "closed"]_vars

\* The reply is the error of an unknown command, of a wrong argument count
\* or of a wrong type.
CommandError(v) == v.Type = ERROR /\ v # ErrInvalidFormat

\* C13: when the reply is the error of an unknown command, of a wrong
\* argument count or of a wrong type, the store is as the failed request
\* found it and the write can take the connection back to reading; and
\* whenever the reply is written the connection is reading again with
\* nothing left of the failed request (req, reply, val, tmp and idx as on a
\* fresh read) over that same store, which is all a handler reads: the next
\* request is answered as if the failed one had not been sent.
C13_ErrorRecovery ==
    /\ [](\A c \in Conns :
             (pc[c] = "write" /\ CommandError(reply[c])) =>
                 /\ Store = pre
                 /\ ENABLED (Write(c) /\ pc'[c] = "read"))
    /\ [][\A c \in Conns :
             (pc[c] = "write" /\ CommandError(reply[c]) /\ pc'[c] \notin {"write", "closed"}) =>
                 /\ pc'[c] = "read"
                 /\ req'[c] = ZeroValue /\ reply'[c] = ZeroValue
                 /\ val'[c] = Nil /\ tmp'[c] = <<>> /\ idx'[c] = 0
                 /\ View(data', heap') = pre]_vars

C13_Witness ==
    \E c \in Conns :
        /\ Done(c, {"RPUSH"}) /\ reply[c] = ErrWrongType
        /\ pre[K(c)].Type = "string" /\ pre[KeySeq[2]].Type = "list"
        /\ Store = pre

\* The entry e carries an expiration instant before t.
Past(e, t) == e.ExpiresAt # NilTime /\ e.ExpiresAt < t

\* C18: on a key whose entry carries an expiration instant in the past,
\* GET replies the null bulk string, TYPE replies none and LLEN replies 0,
\* and with the reply the key is gone from the map, the other keys as they
\* were.
C18_Expired ==
    \A c \in Conns :
        (Done(c, {"GET", "TYPE", "LLEN"}) /\ Past(pre[K(c)], now)) =>
            /\ reply[c] = CASE Route(req[c]) = "GET" -> NewNullBulkString
                             [] Route(req[c]) = "TYPE" -> NewSimpleString("none")
                             [] Route(req[c]) = "LLEN" -> NewInteger(0)
            /\ data[K(c)] = Nil
            /\ Store = [pre EXCEPT ![K(c)] = NoObj]

C18_Witness ==
    \E c \in Conns :
        /\ Done(c, {"LLEN"}) /\ pre[K(c)].Type = "list" /\ Len(pre[K(c)].List) = 2
        /\ Past(pre[K(c)], now)
        /\ reply[c] = NewInteger(0) /\ data[K(c)] = Nil

(***************************************************************************)
(* Properties of the followed connection (SpecWire).                       *)
(***************************************************************************)
RECURSIVE Decoded(_)
\* The values a client's parser reads from the stream s before its first
\* error.
Decoded(s) ==
    LET r == ParserRead(s)
    IN  IF r.err # ErrNil THEN <<>> ELSE <<r.value>> \o Decoded(r.rest)

\* The client sent requests only.
RequestsOnly == \A i \in 1..Len(peer) : peer[i] \in WireRequests

IsEcho(v) == Route(v) = "PING" /\ Len(Args(v)) = 1

\* C11: on the connection a request is read only when every earlier request
\* has its reply written; between the read of a request and the write of its
\* reply exactly one reply is owed; the bytes written are one reply for each
\* request answered, and the reply to the i-th request is the i-th of them
\* (PING msg, whose reply is msg whatever the store holds, tells which).
C11_OneAtATime ==
    /\ nread - nwritten \in {0, 1}
    /\ pc[WireConn] = "read" => nread = nwritten
    /\ pc[WireConn] \notin {"none", "read", "closed", "crashed"} => nread = nwritten + 1
    /\ RequestsOnly =>
          /\ Len(Decoded(outbuf)) = nwritten
          /\ \A i \in 1..nwritten :
                IsEcho(peer[i]) => Decoded(outbuf)[i] = NewBulkString(Args(peer[i])[1].Bulk)

C11_Witness ==
    /\ peer = <<Cmd("PING", <<"b">>), Cmd("PING", <<"a">>)>>
    /\ nread = 2 /\ nwritten = 2 /\ pc[WireConn] = "read"
    /\ outbuf = "$1\r\nb\r\n$1\r\na\r\n"

\* C12: when parser.Read returns an error the connection is closed, with
\* nothing dispatched for that read (no value counted, the request slot and
\* the store as they were); when a reply is not written the connection is
\* closed; and a closed connection takes no step: the bytes left in inbuf
\* are never decoded.
C12_ErrorsClose ==
    /\ [](rerr \notin {ErrNil, Panic} => pc[WireConn] = "closed")
    /\ [][/\ (pc[WireConn] = "read" /\ rerr' \notin {ErrNil, Panic})
                => /\ pc'[WireConn] = "closed"
                   /\ UNCHANGED <<nread, req, reply, data, heap, outbuf>>
          /\ (pc[WireConn] = "write" /\ nwritten' = nwritten)
                => pc'[WireConn] = "closed"
          /\ pc[WireConn] = "closed"
                => UNCHANGED <<pc, inbuf, outbuf, nread, nwritten, req, data, heap>>]_vars

C12_Witness ==
    /\ sent = "x+OK\r\n"
    /\ rerr = "unknown RESP type: x"
    /\ pc[WireConn] = "closed" /\ inbuf = "+OK\r\n" /\ nread = 0 /\ outbuf = ""

\* The whole of what the client wrote arrived.
Whole == sent = Bytes(peer)

\* C14: when the client wrote one value that is not a null form (a simple
\* string, error, integer, bulk string or array, with CR and LF among the
\* bytes of its texts) and the whole of it arrived, the first read returns
\* no error, and the value it returns is the value written, with no byte of
\* the stream left over.
C14_RoundTrip ==
    (Len(peer) = 1 /\ peer[1] \in CodecValues /\ Whole) =>
        /\ rerr # ErrNil => nread >= 1
        /\ (nread = 1 /\ pc[WireConn] = "dispatch") =>
              req[WireConn] = peer[1] /\ inbuf = ""

\* The client wrote the null form z first and the stream holds at least
\* the bytes line: the stream starts with exactly line (and is line when z
\* is all the client wrote); the first read returns no error, and returns z,
\* of its kind, with the null flag and no payload, having consumed line and
\* not a byte more.
NullForm(z, line) ==
    (peer # <<>> /\ peer[1] = z /\ Len(sent) >= Len(line)) =>
        /\ SubSeq(sent, 1, Len(line)) = line
        /\ (Len(peer) = 1 /\ Whole) => sent = line
        /\ rerr # ErrNil => nread >= 1
        /\ (nread = 1 /\ pc[WireConn] = "dispatch") =>
              /\ req[WireConn] = z
              /\ req[WireConn].Null /\ req[WireConn].Bulk = "" /\ req[WireConn].Array = <<>>
              /\ inbuf = From(sent, Len(line) + 1)

\* C15: the encoding of the null bulk string is exactly $-1 CR LF, that of
\* the null array exactly *-1 CR LF (so is the server's reply to GET on an
\* absent key), and decoding either returns the null value of its kind with
\* no payload and consumes that line only.
C15_NullForms ==
    /\ NullForm(NewNullBulkString, "$-1\r\n")
    /\ NullForm(NewNullArray, "*-1\r\n")
    /\ (peer = <<Cmd("GET", <<KeySeq[1]>>)>> /\ nwritten = 1) => outbuf = "$-1\r\n"

C15_Witness ==
    /\ peer = <<NewNullArray, Cmd("PING", <<"a">>)>> /\ sent = "*-1\r\n*2\r\n$4\r\nPING\r\n$1\r\na\r\n"
    /\ nread = 1 /\ pc[WireConn] = "dispatch"
    /\ req[WireConn] = NewNullArray /\ inbuf = "*2\r\n$4\r\nPING\r\n$1\r\na\r\n"

\* Where in the stream the j-th value the client wrote ends.
End(j) == Len(Bytes(SubSeq(peer, 1, j)))

\* The value survives the codec: what is decoded from its bytes is the value.
Framed(v) == ParserRead(WriterWrite(v).bytes) = Result(ErrNil, v, "")

\* The client wrote values and each of them survives the codec, so that
\* only the end of the stream can break a read.
AllFramed == peer # <<>> /\ \A i \in 1..Len(peer) : Framed(peer[i])

\* C16: the reader returns the clean end-of-stream signal io.EOF only when
\* the stream ended at a value boundary: after the last byte of one of the
\* values written, or before the first.
C16_CleanEOF ==
    (AllFramed /\ rerr = EOF) => \E j \in 0..Len(peer) : Len(sent) = End(j)

\* C17: when the stream ends inside the frame of the i-th value written,
\* after its tag byte and before its last byte, no i-th value is ever
\* returned by a read.
C17_Truncated ==
    AllFramed =>
        \A i \in 1..Len(peer) :
            (End(i - 1) < Len(sent) /\ Len(sent) < End(i)) => nread < i

\* The value is no request: not an array, a null array, or an array with no
\* element.
NotARequest(v) == v.Type # ARRAY \/ v.Null \/ v.Array = <<>>

\* processCommand is running on the connection: a value was read and no
\* reply is returned yet.
Handling(c) == pc[c] \notin {"none", "read", "write", "closed", "crashed"}

\* C19: processCommand returns a reply for every value the parser hands it:
\* while it runs there is no reply yet and a step of it is possible, every
\* step of it leads to another step or to the one reply, never to the end of
\* the connection or of the process; the reply is a value of one of the five
\* types; a value that is not an array, a null array and an array with no
\* element get the error 'ERR invalid command format' with the store as it
\* was; requests whose elements are not bulk strings are replied to as well.
C19_Total ==
    /\ [](/\ Handling(WireConn) => (reply[WireConn] = ZeroValue /\ ENABLED NextWire)
          /\ pc[WireConn] = "write" =>
                /\ reply[WireConn].Type \in {TSTRING, ERROR, INTEGER, BULK, ARRAY}
                /\ NotARequest(req[WireConn]) =>
                      /\ reply[WireConn] = NewError("ERR invalid command format")
                      /\ Store = pre)
    /\ [][Handling(WireConn) => (pc'[WireConn] = "write" \/ Handling(WireConn)')]_vars

\* A GET whose argument is an integer was answered, as a GET of the empty
\* key, here with the string stored there.
C19_Witness ==
    /\ pc[WireConn] = "write"
    /\ peer = <<Cmd("SET", <<"", "a">>), NewArray(<<NewBulkString("GET"), NewInteger(7)>>)>>
    /\ req[WireConn] = peer[2]
    /\ reply[WireConn] = NewBulkString("a")

C22_PopDeletesEmptied ==
    [][\A c \in Conns :
          (pc[c] = "pop_del" /\ pc'[c] = "write" /\ data[Key(req[c])] # Nil)
              => /\ heap[data[Key(req[c])]].Type = "list"
                 /\ heap[data[Key(req[c])]].List = <<>>]_vars

\* The connections whose pop returned the element x.
Popped(x) == {c \in Busy : reply[c] = NewBulkString(x)}

\* C23: when pops of two or more connections on one list, read from a store
\* where no other command was under way, have all replied, no value was
\* returned more often than the list held it, and the pops that returned an
\* element are no more than the elements the list held.
C23_PopsDistinct ==
    \A k \in Keys :
        (/\ pre # Stale
         /\ Cardinality(Busy) >= 2
         /\ \A c \in Busy : Done(c, {"LPOP", "RPOP"}) /\ K(c) = k
         /\ pre[k].Type = "list")
            => /\ \A x \in Vals : Cardinality(Popped(x)) <= Count(x, pre[k].List)
               /\ Cardinality({c \in Busy : ~reply[c].Null}) <= Len(pre[k].List)

(***************************************************************************)
(* Properties of expiring entries (SpecExp), second part.                  *)
(***************************************************************************)
\* The entry e carries an expiration instant that t has reached.
Due(e, t) == e.ExpiresAt # NilTime /\ t >= e.ExpiresAt

\* C25: GET, TYPE and LLEN on a key that holds an entry treat the entry as
\* expired (the reply of an absent key, and the key removed) exactly when
\* the entry carries an expiration instant and now has reached it, the
\* instant itself included; otherwise the entry stays in the map.
C25_ExpiredFromInstant ==
    \A c \in Conns :
        (Done(c, {"GET", "TYPE", "LLEN"}) /\ Present(pre[K(c)])) =>
            IF Due(pre[K(c)], now)
            THEN /\ reply[c] = CASE Route(req[c]) = "GET" -> NewNullBulkString
                                  [] Route(req[c]) = "TYPE" -> NewSimpleString("none")
                                  [] Route(req[c]) = "LLEN" -> NewInteger(0)
                 /\ data[K(c)] = Nil
            ELSE data[K(c)] # Nil /\ Store = pre

(***************************************************************************)
(* Properties of the followed connection (SpecWire), second part.          *)
(***************************************************************************)
\* C27: whatever bytes arrive, parser.Read returns a value or an error, a
\* header with a negative length other than -1 included: no read ends in a
\* panic, and no connection is ended by the end of the process.
C27_NoCrash ==
    /\ rerr # Panic
    /\ \A c \in Conns : pc[c] # "crashed"

\* The value is an array of bulk strings, none of them null.
IsBulkArray(v) ==
    /\ v.Type = ARRAY /\ ~v.Null
    /\ \A i \in 1..Len(v.Array) : v.Array[i].Type = BULK /\ ~v.Array[i].Null

\* C26: when the stream is the encoding of k requests, arrays of bulk
\* strings whose payloads may hold CR and LF, every read that returns a
\* value returns the next request written, payloads byte for byte, and
\* leaves in the stream exactly the encoding of the requests after it; the
\* only error a read returns is the end of the stream, after k values.
C26_OneFramePerRead ==
    (peer # <<>> /\ Whole /\ \A i \in 1..Len(peer) : IsBulkArray(peer[i])) =>
        /\ nread <= Len(peer)
        /\ rerr \in {ErrNil, EOF}
        /\ rerr = EOF => nread = Len(peer) /\ inbuf = ""
        /\ rerr = ErrNil => inbuf = Bytes(SubSeq(peer, nread + 1, Len(peer)))
        /\ pc[WireConn] = "dispatch" => req[WireConn] = peer[nread]

\* Two requests whose payloads are CR LF and LF were read and answered, and
\* the third read reported the end of the stream.
C26_Witness ==
    /\ peer = <<Cmd("PING", <<"\r\n">>), Cmd("PING", <<"\n">>)>>
    /\ sent = "*2\r\n$4\r\nPING\r\n$2\r\n\r\n\r\n*2\r\n$4\r\nPING\r\n$1\r\n\n\r\n"
    /\ nread = 2 /\ nwritten = 2 /\ rerr = EOF /\ pc[WireConn] = "closed"
    /\ outbuf = "$2\r\n\r\n\r\n$1\r\n\n\r\n"

(***************************************************************************)
(* Properties of the Database lock (SpecLock, SpecLockFair).               *)
(***************************************************************************)
\* C21: the delete with which Get / GetValue cleans up removes only an
\* expired entry: when the key holds an entry at that moment, it is one
\* whose expiration has passed, never an entry without expiration that a
\* Set or SetValue of another connection installed in the meantime.
C21_CleanupDeletesExpired ==
    [][\A c \in Conns :
          (pc[c] = "get_drain" /\ pc'[c] = "get_relock" /\ data[Key(req[c])] # Nil)
              => IsExpired(heap[data[Key(req[c])]], now)]_vars

\* Connection c holds db.mu, shared or exclusive.
Holds(c) == c \in mu.r \/ (mu.w = c /\ mu.r = {})

\* C24: the element sequence of an entry the map holds changes only in a
\* step of a connection that holds the lock, and a handler takes its next
\* step on the entry that GetValue returned (ListPush, ListPop, ListLength)
\* only while it holds the lock.
C24_PayloadUnderLock ==
    [][/\ \A k \in Keys :
             (data[k] # Nil /\ data'[k] # Nil /\ View(data', heap')[k].List # Store[k].List)
                 => \E c \in Conns : Holds(c) /\ pc'[c] # pc[c]
       /\ \A c \in Conns :
             (/\ pc[c] \in {"push_load", "push_store", "push_len",
                            "pop_load", "pop_store", "pop_len"}
              /\ pc'[c] # pc[c]
              /\ data[Key(req[c])] = val[c])
                 => Holds(c)]_vars

\* Connection c waits for db.mu: for the shared lock, for the writer side,
\* or for the readers to leave.
Waiting(c) ==
    \/ pc[c] = "dispatch"
    \/ pc[c] \in {"get_upgrade", "get_relock", "setvalue", "pop_del"}
    \/ pc[c] \in {"get_drain", "w_drain", "sv_drain", "pd_drain"}

\* C28: the connections that hold the lock shared are those inside Get or
\* GetValue, the connection that owns the writer side is inside Set,
\* SetValue, Del or the cleanup, and every other connection holds nothing:
\* each method returns with what it acquired released; the set of keys and
\* the type and string of an entry change only in a step of the connection
\* that holds the lock exclusively; and, the runnable steps being exactly
\* those the fairness of SpecLockFair speaks of, a connection that waits
\* for the lock gets it.
C28_LockDiscipline ==
    /\ [](/\ mu.r = {c \in Conns : pc[c] \in {"get_in", "get_ret"}}
          /\ mu.w \in Conns \cup {0}
          /\ \A c \in Conns :
                mu.w = c <=> pc[c] \in {"get_drain", "w_drain", "sv_drain", "pd_drain"}
          /\ RunEnabledExact)
    /\ [][(\E k \in Keys : \/ (data[k] = Nil) # (data'[k] = Nil)
                            \/ View(data', heap')[k].Type # Store[k].Type
                            \/ View(data', heap')[k].String # Store[k].String)
              => /\ mu.w # 0 /\ mu.r = {}
                 /\ pc'[mu.w] # pc[mu.w]]_vars
    /\ \A c \in Conns : Waiting(c) ~> ~Waiting(c)

\* The cleanup of a GET owns the writer side and waits for the other
\* connection, which holds the lock shared, to leave.
C28_Witness ==
    \E c, d \in Conns :
        /\ c # d
        /\ pc[c] = "get_drain" /\ mu.w = c
        /\ pc[d] = "get_in" /\ d \in mu.r
        /\ Route(req[c]) = "GET"

====
